---- MODULE Spec2Model ----
(***************************************************************************)
(* Destructive Git guard (base/hooks/destructive-command-guard.py).        *)
(* Commands are TLA+ strings; the guard's string, regular-expression and   *)
(* shlex operations are computed character by character.                   *)
(***************************************************************************)
EXTENDS Integers, Sequences, FiniteSets, TLC

----------------------------------------------------------------------------
(* Python str primitives *)

Ch(s, i) == SubSeq(s, i, i)

\* The backquote character (a string literal cannot hold a bare one).
Backtick == SubSeq("'`'", 2, 2)

From(s, i) == SubSeq(s, i, Len(s))

StartsWith(s, p) == Len(s) >= Len(p) /\ SubSeq(s, 1, Len(p)) = p

Min(S) == CHOOSE m \in S : \A k \in S : m <= k

Max(S) == CHOOSE m \in S : \A k \in S : m >= k

\* s.find(p, i - 1) + 1: the first index >= i at which p occurs in s, 0 if none
FindFrom(s, p, i) ==
    LET at == {j \in i..(Len(s) - Len(p) + 1) : SubSeq(s, j, j + Len(p) - 1) = p}
    IN  IF at = {} THEN 0 ELSE Min(at)

\* s.rfind(p) + 1
RFind(s, p) ==
    LET at == {j \in 1..(Len(s) - Len(p) + 1) : SubSeq(s, j, j + Len(p) - 1) = p}
    IN  IF at = {} THEN 0 ELSE Max(at)

Contains(s, p) == FindFrom(s, p, 1) # 0

\* the first index >= i of a character in cs (not in cs), Len(s) + 1 if none
FirstIn(s, i, cs) ==
    LET at == {j \in i..Len(s) : Ch(s, j) \in cs}
    IN  IF at = {} THEN Len(s) + 1 ELSE Min(at)

FirstNotIn(s, i, cs) ==
    LET at == {j \in i..Len(s) : Ch(s, j) \notin cs}
    IN  IF at = {} THEN Len(s) + 1 ELSE Min(at)

\* the last index of a character not in cs, 0 if none
LastNotIn(s, cs) ==
    LET at == {j \in 1..Len(s) : Ch(s, j) \notin cs}
    IN  IF at = {} THEN 0 ELSE Max(at)

Whitespace == {" ", "\t", "\n", "\r"}

LStripChars(s, cs) == From(s, FirstNotIn(s, 1, cs))

RStripChars(s, cs) == SubSeq(s, 1, LastNotIn(s, cs))

Strip(s) == RStripChars(LStripChars(s, Whitespace), Whitespace)

RemovePrefix(s, p) == IF StartsWith(s, p) THEN From(s, Len(p) + 1) ELSE s

SkipWs(s, i) == FirstNotIn(s, i, Whitespace)

\* Let(v, LAMBDA x : e) is e with x bound to the value v: a local variable
\* of the code that is assigned once and read several times.
Let(v, F(_)) == F(v)

\* cmd.split(): the maximal runs of non-whitespace characters from index i on
RECURSIVE StrSplit(_, _)
StrSplit(s, i) ==
    Let(SkipWs(s, i), LAMBDA j :
    Let(FirstIn(s, j, Whitespace), LAMBDA k :
        IF j > Len(s) THEN <<>>
        ELSE <<SubSeq(s, j, k - 1)>> \o StrSplit(s, k)))

----------------------------------------------------------------------------
(* shlex.split(cmd): posix mode, whitespace_split, no comment characters.  *)
(* The lexer is followed one run of characters at a time: token is the     *)
(* token being built and quoted whether a quote was seen while building it *)

Quotes == {"'", "\""}
Escape == "\\"
EscapedQuotes == {"\""}

ShlexFail == [ok |-> FALSE, tokens |-> <<>>]

\* Inside a quote opened by q, from index i: the text up to the closing
\* quote and the index after it; ok is FALSE when the input ends first
\* ("No closing quotation", "No escaped character").
RECURSIVE ShlexQuoted(_, _, _, _)
ShlexQuoted(s, q, i, text) ==
    Let(FirstIn(s, i, IF q \in EscapedQuotes THEN {q, Escape} ELSE {q}), LAMBDA j :
        LET run == text \o SubSeq(s, i, j - 1) IN
        IF j > Len(s) THEN [ok |-> FALSE, text |-> "", next |-> j]
        ELSE IF Ch(s, j) = q THEN [ok |-> TRUE, text |-> run, next |-> j + 1]
        ELSE IF j + 1 > Len(s) THEN [ok |-> FALSE, text |-> "", next |-> j]
        ELSE IF Ch(s, j + 1) # Escape /\ Ch(s, j + 1) # q
        THEN ShlexQuoted(s, q, j + 2, run \o Escape \o Ch(s, j + 1))
        ELSE ShlexQuoted(s, q, j + 2, run \o Ch(s, j + 1)))

RECURSIVE ShlexRead(_, _, _, _, _)
ShlexRead(s, i, token, quoted, out) ==
    Let(FirstIn(s, i, Whitespace \cup Quotes \cup {Escape}), LAMBDA j :
        LET word == token \o SubSeq(s, i, j - 1)
            emit == IF word # "" \/ quoted THEN Append(out, word) ELSE out
        IN  IF j > Len(s) THEN [ok |-> TRUE, tokens |-> emit]
            ELSE IF Ch(s, j) \in Whitespace
            THEN ShlexRead(s, SkipWs(s, j), "", FALSE, emit)
            ELSE IF Ch(s, j) = Escape THEN
                IF j + 1 > Len(s) THEN ShlexFail
                ELSE ShlexRead(s, j + 2, word \o Ch(s, j + 1), quoted, out)
            ELSE
                Let(ShlexQuoted(s, Ch(s, j), j + 1, ""), LAMBDA inner :
                    IF ~inner.ok THEN ShlexFail
                    ELSE ShlexRead(s, inner.next, word \o inner.text, TRUE, out)))

shlex_split(cmd) == ShlexRead(cmd, 1, "", FALSE, <<>>)

_shell_split(cmd) ==
    Let(shlex_split(cmd), LAMBDA r :
        IF r.ok THEN r.tokens ELSE StrSplit(cmd, 1))

----------------------------------------------------------------------------
(* Catalogs *)

PROTECTED_BRANCHES == {"main", "master"}

\* DESTRUCTIVE_GIT with the reason of one entry left empty
DESTRUCTIVE_GIT_missing_reason ==
    << <<"git reset --hard", "Destroys all uncommitted work. Use 'git stash' first.">>,
       <<"git stash drop", "">>,
       <<"git stash clear", "Permanently deletes ALL stashed changes.">>,
       <<"gh pr merge", "Merges PR. Run manually to review.">>,
       <<"gh repo delete", "Permanently deletes repository.">> >>

DESTRUCTIVE_GIT ==
    << <<"git reset --hard", "Destroys all uncommitted work. Use 'git stash' first.">>,
       <<"git stash drop", "Permanently deletes stashed changes.">>,
       <<"git stash clear", "Permanently deletes ALL stashed changes.">>,
       <<"gh pr merge", "Merges PR. Run manually to review.">>,
       <<"gh repo delete", "Permanently deletes repository.">> >>

\* (the source's reason has a dash that is not an ASCII character)
DANGEROUS_FLAGS ==
    << <<"--no-verify", "Skips git hooks. Hooks enforce quality gates - don't bypass them.">> >>

GIT_GLOBAL_OPTS_WITH_VALUE ==
    {"-C", "-c", "--config-env", "--exec-path", "--git-dir", "--namespace",
     "--super-prefix", "--work-tree"}

GIT_GLOBAL_FLAGS ==
    {"--bare", "--literal-pathspecs", "--glob-pathspecs", "--noglob-pathspecs",
     "--icase-pathspecs", "--no-pager", "--paginate", "--no-optional-locks"}

PUSH_ALL_FLAGS == {"--all", "--mirror"}

----------------------------------------------------------------------------
(* Verdicts: the (blocked, reason) pairs the checks return *)

Allow == [blocked |-> FALSE, reason |-> ""]

Block(reason) == [blocked |-> TRUE, reason |-> reason]

----------------------------------------------------------------------------
(* Branch lookup.  git is what subprocess.run does for                     *)
(* ["git", "branch", "--show-current"]: it completes with a return code    *)
(* and a standard output, it times out, or the binary is not found.        *)

None == [some |-> FALSE, val |-> ""]

Some(v) == [some |-> TRUE, val |-> v]

\* get_current_branch that does not look at the return code
get_current_branch_any_status(git) ==
    IF git.kind = "completed" THEN Some(Strip(git.stdout)) ELSE None

get_current_branch(git) ==
    IF git.kind = "completed" /\ git.returncode = 0
    THEN Some(Strip(git.stdout))
    ELSE None

is_protected_branch(branch) ==
    IF ~branch.some \/ branch.val = "" THEN FALSE
    ELSE branch.val \in PROTECTED_BRANCHES

----------------------------------------------------------------------------
(* git push argument parsing *)

\* PushArgsFrom that gives up at an option it does not know
RECURSIVE PushArgsFromKnown(_, _)
PushArgsFromKnown(tokens, i) ==
    IF i > Len(tokens) THEN <<>>
    ELSE LET token == tokens[i] IN
        IF token = "--" THEN <<>>
        ELSE IF token = "push" THEN SubSeq(tokens, i + 1, Len(tokens))
        ELSE IF token \in GIT_GLOBAL_OPTS_WITH_VALUE THEN
            IF i + 1 >= Len(tokens) + 1 THEN <<>> ELSE PushArgsFromKnown(tokens, i + 2)
        ELSE IF \E opt \in GIT_GLOBAL_OPTS_WITH_VALUE : StartsWith(token, opt \o "=")
        THEN PushArgsFromKnown(tokens, i + 1)
        ELSE IF token \in GIT_GLOBAL_FLAGS THEN PushArgsFromKnown(tokens, i + 1)
        ELSE <<>>

\* the while loop of _push_args, from index i of tokens on
RECURSIVE PushArgsFrom(_, _)
PushArgsFrom(tokens, i) ==
    IF i > Len(tokens) THEN <<>>
    ELSE LET token == tokens[i] IN
        IF token = "--" THEN <<>>
        ELSE IF token = "push" THEN SubSeq(tokens, i + 1, Len(tokens))
        ELSE IF token \in GIT_GLOBAL_OPTS_WITH_VALUE THEN
            IF i + 1 >= Len(tokens) + 1 THEN <<>> ELSE PushArgsFrom(tokens, i + 2)
        ELSE IF \E opt \in GIT_GLOBAL_OPTS_WITH_VALUE : StartsWith(token, opt \o "=")
        THEN PushArgsFrom(tokens, i + 1)
        ELSE IF token \in GIT_GLOBAL_FLAGS THEN PushArgsFrom(tokens, i + 1)
        ELSE IF StartsWith(token, "-") THEN PushArgsFrom(tokens, i + 1)
        ELSE <<>>

_push_args(cmd) ==
    Let(_shell_split(cmd), LAMBDA tokens :
        IF tokens = <<>> \/ tokens[1] # "git" THEN <<>>
        ELSE PushArgsFrom(tokens, 2))

_normalize_branch_ref(ref) == RemovePrefix(ref, "refs/heads/")

_extract_push_targets(args) ==
    Let(SelectSeq(args, LAMBDA a : a # "" /\ ~StartsWith(a, "-")), LAMBDA non_option :
        IF non_option = <<>> THEN <<>>
        ELSE LET first == non_option[1] IN
            IF \/ Contains(first, ":")
               \/ StartsWith(first, "+")
               \/ StartsWith(first, "refs/heads/")
               \/ _normalize_branch_ref(first) \in PROTECTED_BRANCHES
            THEN non_option
            ELSE Tail(non_option))

----------------------------------------------------------------------------
(* Rule checks *)

\* FirstPushAll that knows --all alone
RECURSIVE FirstPushAllOnly(_, _)
FirstPushAllOnly(args, i) ==
    IF i > Len(args) THEN None
    ELSE IF args[i] = "--all" THEN Some(args[i])
    ELSE FirstPushAllOnly(args, i + 1)

\* next((a for a in args if a in PUSH_ALL_FLAGS), None)
RECURSIVE FirstPushAll(_, _)
FirstPushAll(args, i) ==
    IF i > Len(args) THEN None
    ELSE IF args[i] \in PUSH_ALL_FLAGS THEN Some(args[i])
    ELSE FirstPushAll(args, i + 1)

\* text after the last ":"  (normalized.rsplit(":", 1)[1])
AfterLastColon(s) == From(s, RFind(s, ":") + 1)

\* CheckTargets that removes one leading "+" only
RECURSIVE CheckTargetsOnePlus(_, _)
CheckTargetsOnePlus(targets, i) ==
    IF i > Len(targets) THEN Allow
    ELSE Let(RemovePrefix(targets[i], "+"), LAMBDA normalized :
        Let(_normalize_branch_ref(IF Contains(normalized, ":")
                                  THEN AfterLastColon(normalized)
                                  ELSE normalized), LAMBDA branch :
            IF branch \notin PROTECTED_BRANCHES THEN CheckTargetsOnePlus(targets, i + 1)
            ELSE IF Contains(normalized, ":")
            THEN Block("Refspec targeting " \o branch \o " blocked. Use PR workflow.")
            ELSE Block("Direct push to " \o branch \o " blocked. Use PR workflow:\n"
                       \o "  git push origin <feature-branch>\n"
                       \o "  gh pr create")))

\* the loop over targets of check_push_protection, from index i on
RECURSIVE CheckTargets(_, _)
CheckTargets(targets, i) ==
    IF i > Len(targets) THEN Allow
    ELSE Let(LStripChars(targets[i], {"+"}), LAMBDA normalized :
        IF Contains(normalized, ":") THEN
            Let(_normalize_branch_ref(AfterLastColon(normalized)), LAMBDA branch :
                IF branch \in PROTECTED_BRANCHES
                THEN Block("Refspec targeting " \o branch \o " blocked. Use PR workflow.")
                ELSE CheckTargets(targets, i + 1))
        ELSE
            Let(_normalize_branch_ref(normalized), LAMBDA branch :
                IF branch \in PROTECTED_BRANCHES
                THEN Block("Direct push to " \o branch \o " blocked. Use PR workflow:\n"
                           \o "  git push origin <feature-branch>\n"
                           \o "  gh pr create")
                ELSE CheckTargets(targets, i + 1)))

\* check_push_protection that blocks on a protected current branch whether
\* or not the push names targets
check_push_protection_any_targets(cmd, git) ==
    Let(_push_args(cmd), LAMBDA args :
        IF args = <<>> THEN [verdict |-> Allow, calls |-> 0]
        ELSE Let(FirstPushAll(args, 1), LAMBDA push_all :
            IF push_all.some THEN
                [verdict |-> Block(push_all.val
                                   \o " can update protected branches. Use PR workflow:\n"
                                   \o "  git push origin <feature-branch>\n"
                                   \o "  gh pr create"),
                 calls |-> 0]
            ELSE Let(CheckTargets(_extract_push_targets(args), 1), LAMBDA hit :
                    IF hit.blocked THEN [verdict |-> hit, calls |-> 0]
                    ELSE Let(get_current_branch(git), LAMBDA current :
                        IF is_protected_branch(current) THEN
                            [verdict |-> Block("On " \o current.val
                                               \o ". Direct push blocked.\n"
                                               \o "Switch to feature branch:\n"
                                               \o "  git checkout -b <feature>\n"
                                               \o "  git push -u origin <feature>"),
                             calls |-> 1]
                        ELSE [verdict |-> Allow, calls |-> 1]))))

\* The result carries calls, the number of times get_current_branch was
\* invoked while the check ran.
check_push_protection(cmd, git) ==
    Let(_push_args(cmd), LAMBDA args :
        IF args = <<>> THEN [verdict |-> Allow, calls |-> 0]
        ELSE Let(FirstPushAll(args, 1), LAMBDA push_all :
            IF push_all.some THEN
                [verdict |-> Block(push_all.val
                                   \o " can update protected branches. Use PR workflow:\n"
                                   \o "  git push origin <feature-branch>\n"
                                   \o "  gh pr create"),
                 calls |-> 0]
            ELSE Let(_extract_push_targets(args), LAMBDA targets :
                 Let(CheckTargets(targets, 1), LAMBDA hit :
                    IF hit.blocked THEN [verdict |-> hit, calls |-> 0]
                    ELSE Let(get_current_branch(git), LAMBDA current :
                        IF is_protected_branch(current) /\ targets = <<>> THEN
                            [verdict |-> Block("On " \o current.val
                                               \o ". Direct push blocked.\n"
                                               \o "Switch to feature branch:\n"
                                               \o "  git checkout -b <feature>\n"
                                               \o "  git push -u origin <feature>"),
                             calls |-> 1]
                        ELSE [verdict |-> Allow, calls |-> 1])))))

WordChars ==
    {"a", "b", "c", "d", "e", "f", "g", "h", "i", "j", "k", "l", "m", "n", "o",
     "p", "q", "r", "s", "t", "u", "v", "w", "x", "y", "z",
     "A", "B", "C", "D", "E", "F", "G", "H", "I", "J", "K", "L", "M", "N", "O",
     "P", "Q", "R", "S", "T", "U", "V", "W", "X", "Y", "Z",
     "0", "1", "2", "3", "4", "5", "6", "7", "8", "9", "_"}

\* MatchGitWord without the word boundary
MatchGitWordPrefix(cmd, word) ==
    Let(SkipWs(cmd, 4), LAMBDA j :
        /\ StartsWith(cmd, "git")
        /\ j > 4
        /\ j + Len(word) - 1 <= Len(cmd)
        /\ SubSeq(cmd, j, j + Len(word) - 1) = word)

\* re.match(r"^git\s+<word>\b", cmd)
MatchGitWord(cmd, word) ==
    Let(SkipWs(cmd, 4), LAMBDA j :
        LET k == j + Len(word) IN
        /\ StartsWith(cmd, "git")
        /\ j > 4
        /\ k - 1 <= Len(cmd)
        /\ SubSeq(cmd, j, k - 1) = word
        /\ (k > Len(cmd) \/ Ch(cmd, k) \notin WordChars))

check_rebase_protection(cmd) ==
    IF MatchGitWord(cmd, "rebase")
    THEN Block("git rebase rewrites history. Use 'git merge main' instead.")
    ELSE IF MatchGitWord(cmd, "filter-branch")
    THEN Block("git filter-branch rewrites history. Not allowed on sprites.")
    ELSE Allow

\* a.startswith("-") and not a.startswith("--") and letter in a[1:]
IsShortBundleWith(a, letter) ==
    StartsWith(a, "-") /\ ~StartsWith(a, "--") /\ Contains(From(a, 2), letter)

\* check_force_push_protection that knows --force and -f but no bundle
check_force_push_protection_no_bundle(cmd) ==
    Let(_push_args(cmd), LAMBDA args :
    Let(_extract_push_targets(args), LAMBDA targets :
        IF args = <<>> THEN Allow
        ELSE IF \E i \in 1..Len(targets) : StartsWith(targets[i], "+")
        THEN Block("Force refspec (+) overwrites remote history. Use '--force-with-lease' instead.")
        ELSE IF \E i \in 1..Len(args) :
                    \/ args[i] = "--force-if-includes"
                    \/ StartsWith(args[i], "--force-with-lease")
        THEN Allow
        ELSE IF \E i \in 1..Len(args) : args[i] = "--force" \/ args[i] = "-f"
        THEN Block("Overwrites remote history. Use '--force-with-lease' instead.")
        ELSE Allow))

check_force_push_protection(cmd) ==
    Let(_push_args(cmd), LAMBDA args :
    Let(_extract_push_targets(args), LAMBDA targets :
        LET has_safe_force ==
                \E i \in 1..Len(args) :
                    \/ args[i] = "--force-if-includes"
                    \/ StartsWith(args[i], "--force-with-lease")
            has_force ==
                \E i \in 1..Len(args) :
                    \/ args[i] = "--force"
                    \/ args[i] = "-f"
                    \/ IsShortBundleWith(args[i], "f")
        IN  IF args = <<>> THEN Allow
            ELSE IF \E i \in 1..Len(targets) : StartsWith(targets[i], "+")
            THEN Block("Force refspec (+) overwrites remote history. Use '--force-with-lease' instead.")
            ELSE IF has_safe_force THEN Allow
            ELSE IF has_force
            THEN Block("Overwrites remote history. Use '--force-with-lease' instead.")
            ELSE Allow))

\* CleanDryRun that reads past the "--" terminator
RECURSIVE CleanDryRunNoBreak(_, _)
CleanDryRunNoBreak(tokens, i) ==
    IF i > Len(tokens) THEN FALSE
    ELSE IF tokens[i] = "--dry-run" THEN TRUE
    ELSE IF IsShortBundleWith(tokens[i], "n") THEN TRUE
    ELSE CleanDryRunNoBreak(tokens, i + 1)

\* the loop over tokens[2:] of check_clean_protection: TRUE when it returns
\* allow from inside the loop
RECURSIVE CleanDryRun(_, _)
CleanDryRun(tokens, i) ==
    IF i > Len(tokens) THEN FALSE
    ELSE IF tokens[i] = "--" THEN FALSE
    ELSE IF tokens[i] = "--dry-run" THEN TRUE
    ELSE IF IsShortBundleWith(tokens[i], "n") THEN TRUE
    ELSE CleanDryRun(tokens, i + 1)

check_clean_protection(cmd) ==
    Let(_shell_split(cmd), LAMBDA tokens :
        IF Len(tokens) < 2 \/ tokens[1] # "git" \/ tokens[2] # "clean" THEN Allow
        ELSE IF CleanDryRun(tokens, 3) THEN Allow
        ELSE Block("git clean deletes untracked files permanently. Use 'git clean -n' to preview."))

\* for pattern, reason in DESTRUCTIVE_GIT: if pattern in cmd
RECURSIVE CheckDestructive(_, _)
CheckDestructive(cmd, i) ==
    IF i > Len(DESTRUCTIVE_GIT) THEN Allow
    ELSE IF Contains(cmd, DESTRUCTIVE_GIT[i][1]) THEN Block(DESTRUCTIVE_GIT[i][2])
    ELSE CheckDestructive(cmd, i + 1)

\* SearchFlag that looks for the flag as a substring
SearchFlagSubstring(cmd, flag) == Contains(cmd, flag)

\* re.search(r"(^|\s)" + re.escape(flag) + r"(\s|$)", cmd)
SearchFlag(cmd, flag) ==
    \E i \in 1..Len(cmd) :
        /\ i + Len(flag) - 1 <= Len(cmd)
        /\ SubSeq(cmd, i, i + Len(flag) - 1) = flag
        /\ (i = 1 \/ Ch(cmd, i - 1) \in Whitespace)
        /\ (i + Len(flag) - 1 = Len(cmd) \/ Ch(cmd, i + Len(flag)) \in Whitespace)

\* for flag, reason in DANGEROUS_FLAGS: if re.search(...)
RECURSIVE CheckFlags(_, _)
CheckFlags(cmd, i) ==
    IF i > Len(DANGEROUS_FLAGS) THEN Allow
    ELSE IF SearchFlag(cmd, DANGEROUS_FLAGS[i][1]) THEN Block(DANGEROUS_FLAGS[i][2])
    ELSE CheckFlags(cmd, i + 1)

----------------------------------------------------------------------------
(* Shell decomposition *)

\* The leftmost match at or after index i of r"\$\([^()]*\)" (kind "dollar")
\* or of r"`[^`]*`" (kind "backtick"): from is its first index, to its last,
\* open the length of its opening marker; from = 0 when there is none.
NoMatch == [from |-> 0, to |-> 0, open |-> 0]

\* "$(" at index j with no parenthesis before the next ")"
DollarAt(s, j) ==
    /\ SubSeq(s, j, j + 1) = "$("
    /\ Let(FirstIn(s, j + 2, {"(", ")"}), LAMBDA k : k <= Len(s) /\ Ch(s, k) = ")")

SearchSubshell(kind, s, i) ==
    IF kind = "dollar" THEN
        Let({j \in i..(Len(s) - 2) : DollarAt(s, j)}, LAMBDA at :
            IF at = {} THEN NoMatch
            ELSE Let(Min(at), LAMBDA j :
                [from |-> j, to |-> FirstIn(s, j + 2, {"(", ")"}), open |-> 2]))
    ELSE
        Let(FindFrom(s, Backtick, i), LAMBDA j :
            IF j = 0 THEN NoMatch
            ELSE Let(FindFrom(s, Backtick, j + 1), LAMBDA k :
                IF k = 0 THEN NoMatch
                ELSE [from |-> j, to |-> k, open |-> 1]))

\* re.findall: the group of every match, left to right
RECURSIVE FindAll(_, _, _)
FindAll(kind, s, i) ==
    Let(SearchSubshell(kind, s, i), LAMBDA m :
        IF m.from = 0 THEN <<>>
        ELSE <<SubSeq(s, m.from + m.open, m.to - 1)>> \o FindAll(kind, s, m.to + 1))

\* SubAll that puts three spaces in the place of a match
RECURSIVE SubAllPadded(_, _, _)
SubAllPadded(kind, s, i) ==
    Let(SearchSubshell(kind, s, i), LAMBDA m :
        IF m.from = 0 THEN From(s, i)
        ELSE SubSeq(s, i, m.from - 1) \o "   " \o SubAllPadded(kind, s, m.to + 1))

\* re.sub(pattern, " ", s)
RECURSIVE SubAll(_, _, _)
SubAll(kind, s, i) ==
    Let(SearchSubshell(kind, s, i), LAMBDA m :
        IF m.from = 0 THEN From(s, i)
        ELSE SubSeq(s, i, m.from - 1) \o " " \o SubAll(kind, s, m.to + 1))

\* the while loop of _extract_subshells
RECURSIVE ExtractLoop(_, _)
ExtractLoop(remaining, results) ==
    Let(FindAll("dollar", remaining, 1), LAMBDA inner :
    Let(FindAll("backtick", remaining, 1), LAMBDA backtick :
        IF inner = <<>> /\ backtick = <<>> THEN results
        ELSE ExtractLoop(SubAll("backtick", SubAll("dollar", remaining, 1), 1),
                         results \o inner \o backtick)))

_extract_subshells(cmd) == ExtractLoop(cmd, <<>>)

RECURSIVE StripOpen(_)
StripOpen(cmd) ==
    IF cmd # "" /\ Ch(cmd, 1) \in {"(", "{"}
    THEN StripOpen(LStripChars(From(cmd, 2), Whitespace))
    ELSE cmd

RECURSIVE StripClose(_)
StripClose(cmd) ==
    IF cmd # "" /\ Ch(cmd, Len(cmd)) \in {")", "}", ";"}
    THEN StripClose(RStripChars(SubSeq(cmd, 1, Len(cmd) - 1), Whitespace))
    ELSE cmd

_strip_shell_grouping(cmd) == StripClose(StripOpen(Strip(cmd)))

\* the length of the separator (&&, ||, ; or |) that starts at index i, 0 if none
SepLen(s, i) ==
    IF i + 1 <= Len(s) /\ SubSeq(s, i, i + 1) \in {"&&", "||"} THEN 2
    ELSE IF i <= Len(s) /\ Ch(s, i) \in {";", "|"} THEN 1
    ELSE 0

\* re.split(r"\s*(?:&&|\|\||[;|])\s*", s), from index i on: q is where the
\* next separator starts, last the last character before the whitespace
\* that precedes it
RECURSIVE ReSplit(_, _)
ReSplit(s, i) ==
    Let({q \in i..Len(s) : SepLen(s, q) > 0}, LAMBDA seps :
        IF seps = {} THEN <<From(s, i)>>
        ELSE Let(Min(seps), LAMBDA q :
             Let({k \in i..(q - 1) : Ch(s, k) \notin Whitespace}, LAMBDA solid :
                LET last == IF solid = {} THEN i - 1 ELSE Max(solid) IN
                <<SubSeq(s, i, last)>> \o ReSplit(s, SkipWs(s, q + SepLen(s, q))))))

\* [_strip_shell_grouping(p) for p in parts if p.strip()]
RECURSIVE StripParts(_)
StripParts(parts) ==
    IF parts = <<>> THEN <<>>
    ELSE IF Strip(Head(parts)) # ""
    THEN <<_strip_shell_grouping(Head(parts))>> \o StripParts(Tail(parts))
    ELSE StripParts(Tail(parts))

\* the while loop of split_shell_commands
RECURSIVE FlattenLoop(_)
FlattenLoop(remaining) ==
    IF SearchSubshell("dollar", remaining, 1).from # 0
       \/ SearchSubshell("backtick", remaining, 1).from # 0
    THEN FlattenLoop(SubAll("backtick", SubAll("dollar", remaining, 1), 1))
    ELSE remaining

\* the loop over subshells of split_shell_commands
RECURSIVE SubshellParts(_)
SubshellParts(subshells) ==
    IF subshells = <<>> THEN <<>>
    ELSE StripParts(ReSplit(Head(subshells), 1)) \o SubshellParts(Tail(subshells))

split_shell_commands(cmd) ==
    Let(StripParts(ReSplit(FlattenLoop(cmd), 1))
        \o SubshellParts(_extract_subshells(cmd)), LAMBDA all_parts :
        SelectSeq(all_parts, LAMBDA p : p # ""))

----------------------------------------------------------------------------
(* Classification *)

Checked(verdict, rule, calls) == [verdict |-> verdict, rule |-> rule, calls |-> calls]

\* check_single_command that runs the two catalog matches before the
\* specialized checks
check_single_command_catalogs_first(cmd, git) ==
    IF cmd = "" THEN Checked(Allow, "none", 0)
    ELSE Let(CheckDestructive(cmd, 1), LAMBDA destructive :
        IF destructive.blocked THEN Checked(destructive, "destructive", 0)
        ELSE Let(CheckFlags(cmd, 1), LAMBDA flags :
        IF flags.blocked THEN Checked(flags, "flags", 0)
        ELSE Let(check_push_protection(cmd, git), LAMBDA push :
        IF push.verdict.blocked THEN Checked(push.verdict, "push", push.calls)
        ELSE Let(check_rebase_protection(cmd), LAMBDA rebase :
        IF rebase.blocked THEN Checked(rebase, "rebase", push.calls)
        ELSE Let(check_force_push_protection(cmd), LAMBDA force :
        IF force.blocked THEN Checked(force, "force", push.calls)
        ELSE Let(check_clean_protection(cmd), LAMBDA clean :
        IF clean.blocked THEN Checked(clean, "clean", push.calls)
        ELSE Checked(Allow, "none", push.calls)))))))

\* The result names the rule that blocked ("none" when the command is
\* allowed) and carries calls, the number of branch lookups it made.
check_single_command(cmd, git) ==
    IF cmd = "" THEN Checked(Allow, "none", 0)
    ELSE Let(check_push_protection(cmd, git), LAMBDA push :
        IF push.verdict.blocked THEN Checked(push.verdict, "push", push.calls)
        ELSE Let(check_rebase_protection(cmd), LAMBDA rebase :
        IF rebase.blocked THEN Checked(rebase, "rebase", push.calls)
        ELSE Let(check_force_push_protection(cmd), LAMBDA force :
        IF force.blocked THEN Checked(force, "force", push.calls)
        ELSE Let(check_clean_protection(cmd), LAMBDA clean :
        IF clean.blocked THEN Checked(clean, "clean", push.calls)
        ELSE Let(CheckDestructive(cmd, 1), LAMBDA destructive :
        IF destructive.blocked THEN Checked(destructive, "destructive", push.calls)
        ELSE Let(CheckFlags(cmd, 1), LAMBDA flags :
        IF flags.blocked THEN Checked(flags, "flags", push.calls)
        ELSE Checked(Allow, "none", push.calls)))))))

\* the loop of check_command over the parts from index i on
RECURSIVE CheckParts(_, _, _, _)
CheckParts(parts, i, git, calls) ==
    IF i > Len(parts) THEN [verdict |-> Allow, calls |-> calls]
    ELSE Let(check_single_command(parts[i], git), LAMBDA r :
        IF r.verdict.blocked
        THEN [verdict |-> r.verdict, calls |-> calls + r.calls]
        ELSE CheckParts(parts, i + 1, git, calls + r.calls))

check_command(cmd, git) ==
    IF cmd = "" THEN [verdict |-> Allow, calls |-> 0]
    ELSE CheckParts(split_shell_commands(cmd), 1, git, 0)

----------------------------------------------------------------------------
(* State machine *)
(* The hook is run on a session of commands, one after the other, in a     *)
(* repository whose branch lookup behaves the same way throughout.  A      *)
(* session is one command; or two commands and then the two joined by a    *)
(* separator; or a command and then the command wrapped in subshells and   *)
(* groups; or a push command and then the same push with its target quoted *)
(* or with words put between git and push.                                 *)

MaxArgs == 2
MaxDepth == 2

RECURSIVE JoinWords(_)
JoinWords(words) ==
    IF words = <<>> THEN ""
    ELSE IF Len(words) = 1 THEN words[1]
    ELSE words[1] \o " " \o JoinWords(Tail(words))

SeqsUpTo(S, n) == UNION {[1..k -> S] : k \in 0..n}

\* what subprocess.run can do for the branch lookup
Gits ==
    {[kind |-> "completed", returncode |-> 0, stdout |-> out] :
        out \in {"main\n", "master\n", "feature\n", ""}}
    \cup {[kind |-> "completed", returncode |-> 128, stdout |-> ""],
          [kind |-> "completed", returncode |-> 1, stdout |-> "main\n"],
          [kind |-> "timeout", returncode |-> 0, stdout |-> ""],
          [kind |-> "notfound", returncode |-> 0, stdout |-> ""]}

Separators == {"&&", "||", ";", "|"}

PushWords ==
    {"origin", "feature", "+feature", "--force", "-f", "-uf", "-u",
     "--force-with-lease", "--force-if-includes", "--all", "--mirror"}

TargetWords ==
    {"main", "master", "refs/heads/main", "refs/heads/master", "+main",
     "++main", "+refs/heads/main", "main-dev", "fix/main-thing", "feature",
     "HEAD:main", "feature:refs/heads/master", "+HEAD:main", "HEAD:feature",
     "HEAD:refs/for/main", "HEAD:refs/tags/main", "HEAD:+main", "HEAD:x:main",
     "main:x"}

CleanWords == {"-n", "--dry-run", "-fd", "-xn", "--", "-d", "build"}

PushCommands ==
    {JoinWords(<<"git", "push">> \o args) : args \in SeqsUpTo(PushWords, MaxArgs)}

TargetCommands ==
    {"git push origin " \o t : t \in TargetWords}
    \cup {"git push " \o t : t \in TargetWords}

CleanCommands ==
    {JoinWords(<<"git", "clean">> \o args) : args \in SeqsUpTo(CleanWords, MaxArgs)}

OtherCommands ==
    {"", "echo hello", "git status", "git rebase main", "git filter-branch --all",
     "git reset --hard HEAD~1", "git stash drop", "gh pr merge 42",
     "git commit --no-verify -m 'test'", "echo --no-verify-something",
     "git -C repo push", "git --no-pager push origin main",
     "git commit --no-verify=x", "git commit -m 'a --no-verify b'", "--no-verify",
     "x--no-verify", "git rebase", "git  rebase main", "git rebase-helper",
     "git rebased", "'git' rebase main", "git filter-branch-x",
     "git filter-branchx", "git -C repo rebase main",
     "git push origin main --force", "git push -f origin feature --no-verify",
     "git push origin main --no-verify", "git clean -fd --no-verify",
     "git reset --hard --no-verify", "git clean -n --no-verify",
     "echo 'unbalanced", "git clean 'x", "echo $(unclosed", "echo $(a $(b) c)",
     "echo " \o Backtick \o "x", "$(", "()", ";", "$()",
     "echo " \o Backtick \o Backtick, "echo $(echo $(git rebase main)"}

\* the sub-commands joined two at a time
JoinCommands ==
    {"echo hello", "git add .", "git push origin main", "git push origin feature",
     "git push", "git push -u", "git rebase main", "git reset --hard",
     "git clean -d '" \o Backtick \o "'", "echo '" \o Backtick \o "' -n"}

\* the commands wrapped in subshells and groups
WrapCommands ==
    {"echo hello", "git push origin main", "git push -u", "git rebase main",
     "git push --force origin feature", "git clean -fd", "git stash clear",
     "git commit --no-verify", "git push origin main; (echo done)"}

WrapForms == {"dollar", "backtick", "paren", "brace", "argument"}

Wrap(form, c) ==
    CASE form = "dollar" -> "$(" \o c \o ")"
      [] form = "backtick" -> Backtick \o c \o Backtick
      [] form = "paren" -> "(" \o c \o ")"
      [] form = "brace" -> "{ " \o c \o " ; }"
      [] form = "argument" -> "echo $(" \o c \o ")"

\* forms[1] is the innermost wrapping
RECURSIVE WrapAll(_, _)
WrapAll(forms, c) ==
    IF forms = <<>> THEN c ELSE WrapAll(Tail(forms), Wrap(Head(forms), c))

Compose(a, sep, b) == a \o " " \o sep \o " " \o b

\* what comes after the word push in the pushes given a leading option
OptionPushes ==
    {"origin main", "origin feature", "--force origin feature", "-u",
     "origin HEAD:main"}

\* what is put between git and push
LeadingWords ==
    {"--unknown", "-x", "--no-pager", "--git-dir=repo", "-C repo", "-c",
     "--", "foo", "--unknown -x"}

Inputs ==
    {[kind |-> "single", cmds |-> <<c>>] :
        c \in PushCommands \cup TargetCommands \cup CleanCommands \cup OtherCommands}
    \cup {[kind |-> "join", cmds |-> <<a, b, Compose(a, sep, b)>>] :
            a \in JoinCommands, b \in JoinCommands, sep \in Separators}
    \cup {[kind |-> "wrap", cmds |-> <<c, WrapAll(forms, c)>>] :
            c \in WrapCommands, forms \in SeqsUpTo(WrapForms, MaxDepth) \ {<<>>}}
    \cup {[kind |-> "quote",
           cmds |-> <<"git push origin " \o t, "git push origin " \o q \o t \o q>>] :
            t \in TargetWords, q \in Quotes}
    \cup {[kind |-> "option",
           cmds |-> <<"git push " \o r, "git " \o o \o " push " \o r>>] :
            r \in OptionPushes, o \in LeadingWords}

NoCheck == [cmd |-> "", verdict |-> Allow, rule |-> "none", calls |-> 0]

VARIABLES
    input,      \* the session: its kind and the commands the hook is run on
    git,        \* how the branch lookup behaves
    k,          \* the index in input.cmds of the command being evaluated
    pc,         \* "idle" between evaluations, "loop" inside check_command
    parts,      \* split_shell_commands(cmd) of the command being evaluated
    idx,        \* the index in parts of the next sub-command to check
    lookups,    \* get_current_branch calls made by the current evaluation
    last,       \* the sub-command check_single_command ran last, and its result
    results     \* the verdicts check_command returned, one per command so far

vars == <<input, git, k, pc, parts, idx, lookups, last, results>>

Init ==
    /\ input \in Inputs
    /\ git \in Gits
    /\ k = 1
    /\ pc = "idle"
    /\ parts = <<>>
    /\ idx = 1
    /\ lookups = 0
    /\ last = NoCheck
    /\ results = <<>>

\* check_command is entered with the empty command: it returns allow at once
CheckCommandEmpty ==
    /\ pc = "idle"
    /\ k <= Len(input.cmds)
    /\ input.cmds[k] = ""
    /\ results' = Append(results, Allow)
    /\ k' = k + 1
    /\ parts' = <<>>
    /\ idx' = 1
    /\ lookups' = 0
    /\ last' = NoCheck
    /\ UNCHANGED <<input, git, pc>>

\* check_command is entered with a command: it is split into sub-commands
CheckCommandSplit ==
    /\ pc = "idle"
    /\ k <= Len(input.cmds)
    /\ input.cmds[k] # ""
    /\ parts' = split_shell_commands(input.cmds[k])
    /\ idx' = 1
    /\ lookups' = 0
    /\ last' = NoCheck
    /\ pc' = "loop"
    /\ UNCHANGED <<input, git, k, results>>

\* one iteration of the loop of check_command: the sub-command is blocked
CheckPartBlocked ==
    /\ pc = "loop"
    /\ idx <= Len(parts)
    /\ \E r \in {check_single_command(parts[idx], git)} :
        /\ r.verdict.blocked
        /\ last' = [cmd |-> parts[idx], verdict |-> r.verdict, rule |-> r.rule,
                    calls |-> r.calls]
        /\ lookups' = lookups + r.calls
        /\ results' = Append(results, r.verdict)
    /\ k' = k + 1
    /\ pc' = "idle"
    /\ UNCHANGED <<input, git, parts, idx>>

\* one iteration of the loop of check_command: the sub-command is allowed
CheckPartAllowed ==
    /\ pc = "loop"
    /\ idx <= Len(parts)
    /\ \E r \in {check_single_command(parts[idx], git)} :
        /\ ~r.verdict.blocked
        /\ last' = [cmd |-> parts[idx], verdict |-> r.verdict, rule |-> r.rule,
                    calls |-> r.calls]
        /\ lookups' = lookups + r.calls
    /\ idx' = idx + 1
    /\ UNCHANGED <<input, git, k, pc, parts, results>>

\* the loop of check_command ends with no sub-command blocked
CheckCommandAllow ==
    /\ pc = "loop"
    /\ idx > Len(parts)
    /\ results' = Append(results, Allow)
    /\ k' = k + 1
    /\ pc' = "idle"
    /\ UNCHANGED <<input, git, parts, idx, lookups, last>>

Next ==
    \/ CheckCommandEmpty
    \/ CheckCommandSplit
    \/ CheckPartBlocked
    \/ CheckPartAllowed
    \/ CheckCommandAllow

Spec == Init /\ [][Next]_vars

----------------------------------------------------------------------------
(* Properties *)

\* the sub-command is a push: its tokens start with git push
IsGitPush(cmd) ==
    Let(_shell_split(cmd), LAMBDA tokens :
        Len(tokens) >= 2 /\ tokens[1] = "git" /\ tokens[2] = "push")

\* a push with nothing but options after the word push (none at all included)
IsOptionsOnlyPush(cmd) ==
    Let(_shell_split(cmd), LAMBDA tokens :
        /\ Len(tokens) >= 2 /\ tokens[1] = "git" /\ tokens[2] = "push"
        /\ \A i \in 3..Len(tokens) : StartsWith(tokens[i], "-"))

HasPushAll(args) == \E i \in 1..Len(args) : args[i] \in {"--all", "--mirror"}

HasSafeForce(args) ==
    \E i \in 1..Len(args) :
        args[i] = "--force-if-includes" \/ StartsWith(args[i], "--force-with-lease")

HasForce(args) ==
    \E i \in 1..Len(args) :
        \/ args[i] \in {"--force", "-f"}
        \/ (StartsWith(args[i], "-") /\ ~StartsWith(args[i], "--")
            /\ \E j \in 2..Len(args[i]) : Ch(args[i], j) = "f")

HasPlusTarget(targets) == \E i \in 1..Len(targets) : StartsWith(targets[i], "+")

\* the push rule blocked on an explicit target
BlockedOnTarget(chk) ==
    /\ chk.rule = "push"
    /\ \/ StartsWith(chk.verdict.reason, "Direct push to ")
       \/ StartsWith(chk.verdict.reason, "Refspec targeting ")

\* C3 as stated: the branch name of a target is the destination after ":"
\* for a refspec, otherwise the target with a leading "+" removed, with a
\* refs/heads/ prefix stripped
StatedBranchName(t) ==
    RemovePrefix(IF Contains(t, ":") THEN From(t, RFind(t, ":") + 1)
                 ELSE RemovePrefix(t, "+"),
                 "refs/heads/")

\* C3 as amended: every leading "+" is removed, and the destination is what
\* follows the last ":"
AmendedBranchName(t) ==
    Let(From(t, Min({i \in 1..(Len(t) + 1) : i > Len(t) \/ Ch(t, i) # "+"})), LAMBDA n :
        RemovePrefix(IF Contains(n, ":") THEN From(n, RFind(n, ":") + 1) ELSE n,
                     "refs/heads/"))

LookalikeTargets ==
    {"main-dev", "fix/main-thing", "HEAD:refs/for/main", "HEAD:refs/tags/main",
     "HEAD:feature"}

\* C1 (monotonic safety under composition): when a or b alone is blocked,
\* a joined to b by &&, ||, ; or | is blocked, the branch lookup being the same.
C1_Composition ==
    (input.kind = "join" /\ Len(results) = 3)
        => ((results[1].blocked \/ results[2].blocked) => results[3].blocked)

\* C2 (subshell transparency): when c is blocked, so is c wrapped in $( ),
\* backticks, ( ) or { ; }, once or nested, or as an argument of an outer command.
C2_SubshellTransparency ==
    (input.kind = "wrap" /\ Len(results) = 2)
        => (results[1].blocked => results[2].blocked)

\* C3 as stated (push-target exactness): a push without --all/--mirror is
\* blocked on an explicit target exactly when some target's branch name, a
\* leading "+" removed, is protected; quoting the target changes nothing.
C3_TargetExactnessStated ==
    Let(_push_args(last.cmd), LAMBDA args :
    Let(_extract_push_targets(args), LAMBDA targets :
        /\ (args # <<>> /\ ~HasPushAll(args))
            => (BlockedOnTarget(last)
                <=> \E i \in 1..Len(targets) :
                        StatedBranchName(targets[i]) \in {"main", "master"})
        /\ (input.kind = "quote" /\ Len(results) = 2) => results[1] = results[2]))

\* C3 as amended: a push without --all/--mirror is blocked on an explicit
\* target exactly when some target's branch name (the destination after the
\* last ":" of a refspec, otherwise the whole target, every leading "+" and
\* then a refs/heads/ prefix removed) is main or master; the lookalike
\* targets are not blocked; a target in balanced quotes gets the verdict of
\* the target unquoted.
C3_TargetExactness ==
    Let(_push_args(last.cmd), LAMBDA args :
    Let(_extract_push_targets(args), LAMBDA targets :
        /\ (args # <<>> /\ ~HasPushAll(args))
            => /\ BlockedOnTarget(last)
                    <=> \E i \in 1..Len(targets) :
                            AmendedBranchName(targets[i]) \in {"main", "master"}
               /\ (\A i \in 1..Len(targets) : targets[i] \in LookalikeTargets)
                    => last.rule # "push" \/ targets = <<>>
        /\ (input.kind = "quote" /\ Len(results) = 2) => results[1] = results[2]))

\* a push of ++main was blocked as a direct push to main, and a quoted
\* refspec to main was blocked like the unquoted one
C3_Witness ==
    \/ last.cmd = "git push origin ++main" /\ BlockedOnTarget(last)
    \/ /\ input.kind = "quote" /\ Len(results) = 2 /\ results[2].blocked
       /\ input.cmds[2] = "git push origin 'HEAD:main'"

\* C4 (bare push from a protected branch): a push with no arguments at all
\* or with options only, on main or master, is blocked by check_command.
C4_BarePushBlocked ==
    (/\ input.kind = "single" /\ Len(results) = 1
     /\ IsOptionsOnlyPush(input.cmds[1])
     /\ git.kind = "completed" /\ git.returncode = 0
     /\ git.stdout \in {"main\n", "master\n"})
        => results[1].blocked

C6_SafeForceOverride ==
    Let(_push_args(last.cmd), LAMBDA args :
        HasSafeForce(args) => last.rule # "force")

\* C7 (push-all protection): a push sub-command with --all or --mirror among
\* its arguments is blocked whatever else it carries and whatever the branch
\* lookup does, and the reason names the flag.
C7_PushAll ==
    Let(_push_args(last.cmd), LAMBDA args :
        HasPushAll(args)
            => /\ last.verdict.blocked
               /\ \E i \in 1..Len(args) :
                    /\ args[i] \in {"--all", "--mirror"}
                    /\ StartsWith(last.verdict.reason, args[i] \o " ")
               /\ (pc = "idle" /\ results # <<>>) => results[Len(results)].blocked)

\* a push --mirror was blocked while the branch lookup could not find git
C7_Witness ==
    /\ last.cmd = "git push --mirror origin" /\ last.verdict.blocked
    /\ git.kind = "notfound" /\ pc = "idle"

LookupFails ==
    git.kind \in {"timeout", "notfound"} \/ (git.kind = "completed" /\ git.returncode # 0)

C9_OneLookup == lookups <= 1

\* C10 (clean protection): a sub-command whose first two tokens are git
\* clean is blocked unless --dry-run or a short bundle with n comes before
\* the first "--"; with one, the clean rule does not block it.
C10_CleanProtection ==
    Let(_shell_split(last.cmd), LAMBDA tokens :
        (Len(tokens) >= 2 /\ tokens[1] = "git" /\ tokens[2] = "clean")
            => LET dry(i) == \/ tokens[i] = "--dry-run"
                             \/ /\ StartsWith(tokens[i], "-") /\ ~StartsWith(tokens[i], "--")
                                /\ \E j \in 2..Len(tokens[i]) : Ch(tokens[i], j) = "n"
                   dry_run == \E i \in 3..Len(tokens) :
                                /\ dry(i)
                                /\ \A j \in 3..(i - 1) : tokens[j] # "--"
               IN  /\ ~dry_run => last.verdict.blocked /\ last.rule = "clean"
                   /\ dry_run => last.rule # "clean")

\* git clean with -n only after "--" was blocked, and with the bundle -xn
\* it was let through
C10_Witness ==
    \/ last.cmd = "git clean -- -n" /\ last.rule = "clean"
    \/ last.cmd = "git clean -xn" /\ ~last.verdict.blocked

\* the flag is one of the whitespace-separated words of the text
IsDelimitedWord(cmd, flag) ==
    Let(StrSplit(cmd, 1), LAMBDA words : \E i \in 1..Len(words) : words[i] = flag)

\* C11 (boundary exactness on flags): the dangerous-flag rule blocks a
\* sub-command only when --no-verify is a whole word of it, delimited by
\* whitespace or the ends; a sub-command that has the flag name only inside
\* a longer word and that no other rule blocks is allowed.
C11_FlagBoundary ==
    /\ last.rule = "flags" => IsDelimitedWord(last.cmd, "--no-verify")
    /\ (/\ Contains(last.cmd, "--no-verify")
        /\ ~IsDelimitedWord(last.cmd, "--no-verify")
        /\ last.rule \in {"flags", "none"})
            => last.verdict = Allow

\* --no-verify-something was checked and allowed
C11_Witness ==
    /\ last.cmd = "echo --no-verify-something" /\ last.verdict = Allow
    /\ pc = "idle" /\ results = <<Allow>>

HistoryWords == {"rebase", "filter-branch"}

\* the text is git, whitespace, the word, and then its end or a character
\* that is no letter, digit or underscore
BeginsWithGitWord(cmd, word) ==
    \E j \in 5..(Len(cmd) + 1) :
        /\ SubSeq(cmd, 1, 3) = "git"
        /\ \A i \in 4..(j - 1) : Ch(cmd, i) \in Whitespace
        /\ j + Len(word) - 1 <= Len(cmd)
        /\ SubSeq(cmd, j, j + Len(word) - 1) = word
        /\ \/ j + Len(word) > Len(cmd)
           \/ Ch(cmd, j + Len(word)) \notin WordChars

\* C12 as stated (exact leading-token match): the rebase rule blocks a
\* sub-command exactly when its first token is git and its second token is
\* exactly rebase or filter-branch.
C12_RebaseExactToken ==
    Let(_shell_split(last.cmd), LAMBDA tokens :
        last.rule = "rebase"
            <=> (Len(tokens) >= 2 /\ tokens[1] = "git" /\ tokens[2] \in HistoryWords))

\* C12 as amended: the rebase rule blocks a sub-command exactly when its
\* text begins with git, one or more whitespace characters, and rebase or
\* filter-branch followed by the end of the text or by a character that is
\* no letter, digit or underscore; the rule check and the classification
\* agree on it.
C12_RebaseWordBoundary ==
    /\ last.rule = "rebase" <=> \E w \in HistoryWords : BeginsWithGitWord(last.cmd, w)
    /\ last.cmd # "" => (last.rule = "rebase" <=> check_rebase_protection(last.cmd).blocked)

\* git rebase-helper was blocked by the rebase rule, and git rebased and a
\* quoted 'git' were not
C12_Witness ==
    \/ last.cmd = "git rebase-helper" /\ last.rule = "rebase"
    \/ last.cmd = "git rebased" /\ last.verdict = Allow
    \/ last.cmd = "'git' rebase main" /\ last.verdict = Allow

\* an option _push_args knows neither as value-taking nor as a bare flag
IsUnrecognizedOption(t) ==
    /\ StartsWith(t, "-")
    /\ t \notin GIT_GLOBAL_OPTS_WITH_VALUE \cup GIT_GLOBAL_FLAGS
    /\ ~\E opt \in GIT_GLOBAL_OPTS_WITH_VALUE : StartsWith(t, opt \o "=")

\* an option _push_args steps over, one token at a time
IsSteppedOver(t) ==
    StartsWith(t, "-") /\ t # "--" /\ t \notin GIT_GLOBAL_OPTS_WITH_VALUE

\* C13 as stated (an unrecognized leading option abandons push analysis):
\* with such an option between git and push, _push_args reports no push and
\* neither the push rule nor the force rule blocks the sub-command.
C13_UnknownOptionAbandons ==
    Let(_shell_split(last.cmd), LAMBDA tokens :
        (/\ Len(tokens) >= 3 /\ tokens[1] = "git"
         /\ \E p \in 3..Len(tokens) :
                /\ tokens[p] = "push"
                /\ \A i \in 2..(p - 1) : StartsWith(tokens[i], "-")
                /\ \E i \in 2..(p - 1) : IsUnrecognizedOption(tokens[i]))
            => (_push_args(last.cmd) = <<>> /\ last.rule \notin {"push", "force"}))

\* C13 as amended: an unrecognized leading option is stepped over.  When
\* every token between git and push starts with "-", is not "--" and is not
\* a value-taking option, _push_args returns what follows push, and the
\* push and force rules give the sub-command the verdict they give the push
\* without those tokens.
C13_UnknownOptionSkipped ==
    Let(_shell_split(last.cmd), LAMBDA tokens :
        /\ \A p \in 3..Len(tokens) :
            (/\ tokens[1] = "git" /\ tokens[p] = "push"
             /\ \A i \in 2..(p - 1) : IsSteppedOver(tokens[i]))
                => _push_args(last.cmd) = SubSeq(tokens, p + 1, Len(tokens))
        /\ (/\ input.kind = "option" /\ Len(results) = 2 /\ last.cmd = input.cmds[2]
            /\ \E p \in 3..Len(tokens) :
                /\ tokens[p] = "push"
                /\ \A i \in 2..(p - 1) : IsSteppedOver(tokens[i]))
                => /\ results[1].blocked
                        => (results[2] = results[1] /\ last.rule \in {"push", "force"})
                   /\ ~results[1].blocked => last.rule \notin {"push", "force"})

\* git --unknown push origin main was blocked as a direct push to main
C13_Witness ==
    /\ input.kind = "option" /\ Len(results) = 2
    /\ last.cmd = "git --unknown push origin main"
    /\ last.rule = "push" /\ BlockedOnTarget(last)
    /\ results[2] = results[1]

\* the verdict of the first check that blocks, in the order push target,
\* force push, rebase, clean, destructive substring, dangerous flag
FirstInStatedOrder(cmd, g) ==
    Let(check_push_protection(cmd, g).verdict, LAMBDA push :
        IF push.blocked THEN push
        ELSE Let(check_force_push_protection(cmd), LAMBDA force :
        IF force.blocked THEN force
        ELSE Let(check_rebase_protection(cmd), LAMBDA rebase :
        IF rebase.blocked THEN rebase
        ELSE Let(check_clean_protection(cmd), LAMBDA clean :
        IF clean.blocked THEN clean
        ELSE Let(CheckDestructive(cmd, 1), LAMBDA destructive :
        IF destructive.blocked THEN destructive
        ELSE CheckFlags(cmd, 1))))))

\* C14 (fixed-order first match): the verdict of check_single_command is
\* that of the first check that blocks in the order push target, force push,
\* rebase, clean, destructive substring, dangerous flag, and allow when none
\* blocks; check_command returns the verdict of the first blocked
\* sub-command in decomposer order, and allow when none is blocked.
C14_FirstMatch ==
    /\ last.cmd # ""
        => /\ last.verdict = FirstInStatedOrder(last.cmd, git)
           /\ ~(check_rebase_protection(last.cmd).blocked
                /\ check_force_push_protection(last.cmd).blocked)
    /\ last.cmd = "git push origin main --force"
        => StartsWith(last.verdict.reason, "Direct push to main")
    /\ last.cmd = "git push -f origin feature --no-verify"
        => StartsWith(last.verdict.reason, "Overwrites remote history")
    /\ (pc = "idle" /\ results # <<>> /\ parts # <<>>)
        => IF results[Len(results)].blocked
           THEN /\ idx \in 1..Len(parts)
                /\ results[Len(results)] = check_single_command(parts[idx], git).verdict
                /\ \A j \in 1..(idx - 1) :
                        ~check_single_command(parts[j], git).verdict.blocked
           ELSE \A j \in 1..Len(parts) :
                        ~check_single_command(parts[j], git).verdict.blocked

\* a forced push with --no-verify was given the force reason, not the flag
\* reason, and it is what check_command returned
C14_Witness ==
    /\ last.cmd = "git push -f origin feature --no-verify"
    /\ last.rule = "force" /\ pc = "idle"
    /\ results = <<Block("Overwrites remote history. Use '--force-with-lease' instead.")>>

\* every round of the extraction loops on the text strictly shortens it
RECURSIVE ShortensEachRound(_)
ShortensEachRound(remaining) ==
    IF SearchSubshell("dollar", remaining, 1).from = 0
       /\ SearchSubshell("backtick", remaining, 1).from = 0
    THEN TRUE
    ELSE Let(SubAll("backtick", SubAll("dollar", remaining, 1), 1), LAMBDA next :
        Len(next) < Len(remaining) /\ ShortensEachRound(next))

IsVerdict(v) ==
    /\ DOMAIN v = {"blocked", "reason"}
    /\ v.blocked \in BOOLEAN

\* the session is over: every command of it has been evaluated
SessionDone == pc = "idle" /\ k = Len(input.cmds) + 1

\* a step finishes a command, enters the loop of check_command, or moves
\* to the next sub-command of the same parts
C15_Progress ==
    \/ k' = k + 1 /\ pc' = "idle"
    \/ k' = k /\ pc = "idle" /\ pc' = "loop" /\ idx' = 1
    \/ k' = k /\ pc = "loop" /\ pc' = "loop" /\ idx' = idx + 1 /\ parts' = parts

\* the guard of one of the steps holds, and the sub-command to check next,
\* if any, has a verdict
C15_CanStep ==
    \/ pc = "idle" /\ k <= Len(input.cmds)
    \/ /\ pc = "loop" /\ idx <= Len(parts)
       /\ IsVerdict(check_single_command(parts[idx], git).verdict)
    \/ pc = "loop" /\ idx > Len(parts)

C15_OneVerdictEach ==
    /\ Len(results) = k - 1
    /\ k \in 1..(Len(input.cmds) + 1)
    /\ idx \in 1..(Len(parts) + 1)
    /\ ~SessionDone => C15_CanStep
    /\ \A i \in 1..Len(results) :
        /\ IsVerdict(results[i])
        /\ input.cmds[i] = "" => results[i] = Allow
    /\ \A i \in 1..Len(input.cmds) : ShortensEachRound(input.cmds[i])

\* C15 (totality and termination): on every input, the empty string and
\* texts with unbalanced quotes or unmatched or nested markers included,
\* each evaluation ends and returns exactly one verdict (until the session
\* is over a step can be taken, every step makes progress towards its end,
\* and there is one verdict per command evaluated); every round of the
\* extraction loops strictly shortens the remaining text; the empty string
\* yields allow.
C15_Totality == []C15_OneVerdictEach /\ [][C15_Progress]_vars

\* a command with an unbalanced quote was evaluated to a verdict
C15_Witness ==
    /\ SessionDone /\ results = <<Allow>>
    /\ input.cmds = <<"echo 'unbalanced">>

\* the reason is empty exactly when the verdict does not block
IsWellFormed(v) == (v.reason = "") <=> ~v.blocked

\* C16 (verdict well-formedness): every verdict returned by check_command,
\* by check_single_command and by each rule check has an empty reason
\* exactly when it does not block.
C16_VerdictWellFormed ==
    /\ \A i \in 1..Len(results) : IsWellFormed(results[i])
    /\ IsWellFormed(last.verdict)
    /\ last.cmd # ""
        => /\ IsWellFormed(check_push_protection(last.cmd, git).verdict)
           /\ IsWellFormed(check_rebase_protection(last.cmd))
           /\ IsWellFormed(check_force_push_protection(last.cmd))
           /\ IsWellFormed(check_clean_protection(last.cmd))
           /\ IsWellFormed(CheckDestructive(last.cmd, 1))
           /\ IsWellFormed(CheckFlags(last.cmd, 1))

\* git stash drop was blocked by the catalog with a reason, and that
\* verdict is what check_command returned
C16_Witness ==
    /\ last.cmd = "git stash drop" /\ last.rule = "destructive"
    /\ last.verdict.reason # "" /\ pc = "idle" /\ results = <<last.verdict>>

\* the sub-command is a push as the push rule sees it, or by its tokens
IsPushPart(p) == _push_args(p) # <<>> \/ IsGitPush(p)

\* every push sub-command of the command names a target
EveryPushHasTarget(cmd) ==
    Let(split_shell_commands(cmd), LAMBDA ps :
        \A i \in 1..Len(ps) :
            IsPushPart(ps[i]) => _extract_push_targets(_push_args(ps[i])) # <<>>)

\* the lookup that finds no git: the branch is unknown
GitNotFound == [kind |-> "notfound", returncode |-> 0, stdout |-> ""]

\* C17 (branch independence with explicit targets): when every push
\* sub-command of a command names a target, or the command has no push, the
\* verdict check_command returned, blocked flag and reason, is the same
\* under every outcome of the branch lookup: under each of them it is the
\* verdict returned when the branch is unknown.
C17_BranchIndependence ==
    (pc = "idle" /\ results # <<>>)
        => Let(input.cmds[k - 1], LAMBDA cmd :
            EveryPushHasTarget(cmd)
                => check_command(cmd, GitNotFound).verdict = results[k - 1])

\* on main, a push of a feature branch looked the branch up and was allowed
C17_Witness ==
    /\ git = [kind |-> "completed", returncode |-> 0, stdout |-> "main\n"]
    /\ input.cmds = <<"git push origin feature">>
    /\ pc = "idle" /\ results = <<Allow>> /\ lookups = 1

====
